---- MODULE Spec2Model ----
(***************************************************************************)
(* Model of courses_parse.py: parse_pdf_plan, the per-page parsing engine  *)
(* (context tracking, line buffer, page-boundary flush, table pass,        *)
(* post-filter) with its helpers flush_buffer and clean.                   *)
(*                                                                         *)
(* Text is modelled character by character: a string is a sequence of      *)
(* characters and a character is a one-element name.  Cyrillic letters are *)
(* named by their transliteration ("s" is Cyrillic es, "ya" is ya, "soft"  *)
(* the soft sign), capitals start with a capital ("P", "Ya"); Latin        *)
(* letters are "lat_s" / "Lat_S"; the em-dash is "emdash"; digits, the     *)
(* space, the tab and ASCII punctuation are themselves.  Every character   *)
(* of the source text is one element, so lengths are the source's lengths. *)
(***************************************************************************)
EXTENDS Integers, Sequences, FiniteSets, TLC

\* Python's None.  An optional value (Optional[int], Optional[Dict]) is <<>> for
\* None and <<v>> for the value v; a cell of a table row that is None is NoneCell.
None ==
   <<>>

Some(v) ==
   <<v>>

NoneCell ==
   <<"None">>

--------------------------------------------------------------------------
\* Character classes of the regular expressions (re, str patterns).

\* str.lower(), re.I: capital -> small, per character.
LowerMap ==
   [A |-> "a", B |-> "b", V |-> "v", G |-> "g", D |-> "d", E |-> "e", Yo |-> "yo",
    Zh |-> "zh", Z |-> "z", I |-> "i", J |-> "j", K |-> "k", L |-> "l", M |-> "m",
    N |-> "n", O |-> "o", P |-> "p", R |-> "r", S |-> "s", T |-> "t", U |-> "u",
    F |-> "f", H |-> "h", C |-> "c", Ch |-> "ch", Sh |-> "sh", Shch |-> "shch",
    Hard |-> "hard", Y |-> "y", Soft |-> "soft", Eh |-> "eh", Yu |-> "yu", Ya |-> "ya",
    Lat_S |-> "lat_s", Lat_O |-> "lat_o", Lat_F |-> "lat_f", Lat_T |-> "lat_t",
    Lat_K |-> "lat_k", Lat_I |-> "lat_i", Lat_L |-> "lat_l"]

LowerChar(c) ==
   IF c \in DOMAIN LowerMap THEN LowerMap[c] ELSE c

\* str.lower()
lower(s) ==
   [i \in 1..Len(s) |-> LowerChar(s[i])]

\* \s, and the characters str.strip() removes
WHITESPACE ==
   {" ", "\t"}

IsSpace(c) ==
   c \in WHITESPACE

\* \d
DIGITS ==
   {"0", "1", "2", "3", "4", "5", "6", "7", "8", "9"}

IsDigit(c) ==
   c \in DIGITS

\* \w : letters, digits, underscore
IsWord(c) ==
   \/ IsDigit(c)
   \/ c = "_"
   \/ c \in DOMAIN LowerMap
   \/ c \in {LowerMap[u] : u \in DOMAIN LowerMap}

\* the characters name.strip(" .;—-") removes
STRIP_CHARS ==
   {" ", ".", ";", "emdash", "-"}

MinOf(S) ==
   CHOOSE x \in S : \A y \in S : x <= y

MaxOf(S) ==
   CHOOSE x \in S : \A y \in S : x >= y

\* the first position from i on whose character is not in chars (Len(s) + 1 if none)
RECURSIVE SkipRight(_, _, _)
SkipRight(s, i, chars) ==
   IF i <= Len(s) /\ s[i] \in chars THEN SkipRight(s, i + 1, chars) ELSE i

\* the last position up to i whose character is not in chars (0 if none)
RECURSIVE SkipLeft(_, _, _)
SkipLeft(s, i, chars) ==
   IF i >= 1 /\ s[i] \in chars THEN SkipLeft(s, i - 1, chars) ELSE i

\* str.strip(chars)
Strip(s, chars) ==
   SubSeq(s, SkipRight(s, 1, chars), SkipLeft(s, Len(s), chars))

\* kw in s
Contains(s, kw) ==
   \E i \in 1..(Len(s) - Len(kw) + 1) : SubSeq(s, i, i + Len(kw) - 1) = kw

\* the positions where a run of whitespace starting at i can end: \s*
SpStar(s, i) ==
   i..SkipRight(s, i, WHITESPACE)

\* \s+
SpPlus(s, i) ==
   SpStar(s, i) \ {i}

\* \d{lo,hi} starting at i
DigRep(s, i, lo, hi) ==
   {j \in (i + lo)..SkipRight(s, i, DIGITS) : j <= i + hi}

\* \d+
DigPlus(s, i) ==
   DigRep(s, i, 1, Len(s))

\* a literal, case-insensitively (re.I), starting at i; the position after it
Lit(s, i, kw) ==
   IF i + Len(kw) - 1 <= Len(s) /\ lower(SubSeq(s, i, i + Len(kw) - 1)) = lower(kw)
   THEN {i + Len(kw)}
   ELSE {}

\* \b at position i (before s[i])
WordBoundary(s, i) ==
   LET before == i > 1 /\ i - 1 <= Len(s) /\ IsWord(s[i - 1])
       after  == i >= 1 /\ i <= Len(s) /\ IsWord(s[i])
   IN  before # after

\* int() of a string of decimal digits
RECURSIVE DigitsValue(_)
DigitsValue(s) ==
   IF s = <<>> THEN 0
   ELSE LET c == s[Len(s)]
            v == CASE c = "0" -> 0 [] c = "1" -> 1 [] c = "2" -> 2 [] c = "3" -> 3
                   [] c = "4" -> 4 [] c = "5" -> 5 [] c = "6" -> 6 [] c = "7" -> 7
                   [] c = "8" -> 8 [] c = "9" -> 9
        IN  10 * DigitsValue(SubSeq(s, 1, Len(s) - 1)) + v

\* " ".join(parts)
RECURSIVE Join(_)
Join(parts) ==
   IF parts = <<>> THEN <<>>
   ELSE IF Len(parts) = 1 THEN parts[1]
   ELSE parts[1] \o <<" ">> \o Join(Tail(parts))

\* re.sub(r"\s+", " ", s): the first character of each whitespace run becomes a
\* space, the rest of the run is dropped
CollapseSpace(s) ==
   LET marked == [i \in 1..Len(s) |->
                    IF ~IsSpace(s[i]) THEN s[i]
                    ELSE IF i > 1 /\ IsSpace(s[i - 1]) THEN "dropped"
                    ELSE " "]
   IN  SelectSeq(marked, LAMBDA c : c # "dropped")

\* mutant of clean: the ends are not stripped
clean_NoStrip(text) ==
   CollapseSpace(IF text = NoneCell THEN <<>> ELSE text)

\* clean(text)
clean(text) ==
   Strip(CollapseSpace(IF text = NoneCell THEN <<>> ELSE text), WHITESPACE)

--------------------------------------------------------------------------
\* The fixed phrases of the source.

\* "семестр"
KW_SEMESTR ==
      <<"s","e","m","e","s","t","r">>
\* "Пул"
KW_PUL ==
      <<"P","u","l">>
\* "выборн"
KW_VYBORN ==
      <<"v","y","b","o","r","n">>
\* "Обязательн"
KW_OBYAZATELN ==
      <<"O","b","ya","z","a","t","e","l","soft","n">>
\* the keyword list of the noise filter
\*   "блок 1"
\*   "блок 2"
\*   "блок 3"
\*   "блок 4"
\*   "модули"
\*   "дисциплины"
\*   "практика"
\*   "аттестация"
\*   "универсальная (надпрофессиональная) подготовка"
\*   "магистратура/аспирантура"
\*   "мировоззренческий модуль"
\*   "иностранный язык"
\*   "soft skills"
\*   "государственная итоговая аттестация"
NOISE_KEYWORDS ==
   {
      <<"b","l","o","k"," ","1">>,
      <<"b","l","o","k"," ","2">>,
      <<"b","l","o","k"," ","3">>,
      <<"b","l","o","k"," ","4">>,
      <<"m","o","d","u","l","i">>,
      <<"d","i","s","c","i","p","l","i","n","y">>,
      <<"p","r","a","k","t","i","k","a">>,
      <<"a","t","t","e","s","t","a","c","i","ya">>,
      <<"u","n","i","v","e","r","s","a","l","soft","n","a","ya"," ","(","n","a","d","p","r","o",
      "f","e","s","s","i","o","n","a","l","soft","n","a","ya",")"," ","p","o","d","g","o","t",
      "o","v","k","a">>,
      <<"m","a","g","i","s","t","r","a","t","u","r","a","/","a","s","p","i","r","a","n","t","u",
      "r","a">>,
      <<"m","i","r","o","v","o","z","z","r","e","n","ch","e","s","k","i","j"," ","m","o","d","u",
      "l","soft">>,
      <<"i","n","o","s","t","r","a","n","n","y","j"," ","ya","z","y","k">>,
      <<"lat_s","lat_o","lat_f","lat_t"," ","lat_s","lat_k","lat_i","lat_l","lat_l","lat_s">>,
      <<"g","o","s","u","d","a","r","s","t","v","e","n","n","a","ya"," ","i","t","o","g","o","v",
      "a","ya"," ","a","t","t","e","s","t","a","c","i","ya">>
   }
\* the keyword list of the post-filter
\*   "учебный план"
\*   "блок "
\*   "семестр старт"
\*   "лист1"
POST_KEYWORDS ==
   {
      <<"u","ch","e","b","n","y","j"," ","p","l","a","n">>,
      <<"b","l","o","k"," ">>,
      <<"s","e","m","e","s","t","r"," ","s","t","a","r","t">>,
      <<"l","i","s","t","1">>
   }

--------------------------------------------------------------------------
\* The regular expressions.

\* RE_SEMESTER_CTX.search(line): \b(\d+)\s*семестр, re.I.  The leftmost match's
\* group(1) as an integer, or None.
SemesterSearch(line) ==
   LET ends(i) == {d \in DigPlus(line, i) :
                      \E e \in SpStar(line, d) : Lit(line, e, KW_SEMESTR) # {}}
       starts  == {i \in 1..Len(line) : WordBoundary(line, i) /\ ends(i) # {}}
   IN  IF starts = {} THEN None
       ELSE LET i == MinOf(starts)
            IN  Some(DigitsValue(SubSeq(line, i, MaxOf(ends(i)) - 1)))

\* RE_POOL_ELECT.search(line): Пул\s+выборн, re.I
PoolSearch(line) ==
   \E i \in 1..Len(line) :
      \E a \in Lit(line, i, KW_PUL) :
         \E b \in SpPlus(line, a) : Lit(line, b, KW_VYBORN) # {}

\* RE_REQUIRED.search(line): Обязательн, re.I
RequiredSearch(line) ==
   \E i \in 1..Len(line) : Lit(line, i, KW_OBYAZATELN) # {}

\* re.search(r"\d+\s+\d+$", line)
EndsInTwoInts(line) ==
   \E i \in 1..Len(line) :
      \E a \in DigPlus(line, i) :
         \E b \in SpPlus(line, a) : (Len(line) + 1) \in DigPlus(line, b)

\* CourseTail with hours of 2 or 3 digits only: \d{2,3}
CourseTail_Hours3(s, k) ==
   UNION {UNION {UNION {{<<a, b, c, d>> : d \in {x \in DigRep(s, c, 2, 3) :
                                                   (Len(s) + 1) \in SpStar(s, x)}}
                        : c \in SpPlus(s, b)}
                 : b \in DigRep(s, a, 1, 2)}
          : a \in SpPlus(s, k)}

\* The tail of RE_COURSE_LINE from position k:
\*   \s+ (?P<ects>\d{1,2}) \s+ (?P<hours>\d{2,4}) \s* $
\* as the set of <<a, b, c, d>>: ects is s[a..b-1], hours is s[c..d-1].
CourseTail(s, k) ==
   UNION {UNION {UNION {{<<a, b, c, d>> : d \in {x \in DigRep(s, c, 2, 4) :
                                                   (Len(s) + 1) \in SpStar(s, x)}}
                        : c \in SpPlus(s, b)}
                 : b \in DigRep(s, a, 1, 2)}
          : a \in SpPlus(s, k)}

\* t before u in the order the backtracking matcher tries them (greedy: larger first)
RECURSIVE TriedFirst(_, _)
TriedFirst(t, u) ==
   IF t = <<>> THEN TRUE
   ELSE IF t[1] # u[1] THEN t[1] > u[1]
   ELSE TriedFirst(Tail(t), Tail(u))

\* RE_COURSE_LINE.match(s):
\*   ^\s* (?:(\d+)\s+)? (?P<name>.+?)\s+ (?P<ects>\d{1,2})\s+ (?P<hours>\d{2,4})\s*$
\* A way to match is <<w, idx, d, ns, -ne>>: the leading \s* ends at w, idx = 1 when
\* the optional index is taken (its digits end at d), the name is s[ns..ne-1].  The
\* matcher returns the first way it tries that succeeds: more leading whitespace
\* first, the index taken first, longer index first, shorter name (.+?) first.
CourseLineMatch(s) ==
   LET nameEnds(ns) == {ne \in (ns + 1)..(Len(s) + 1) : CourseTail(s, ne) # {}}
       withIdx(w)   == UNION {UNION {{<<w, 1, d, ns, 0 - ne>> : ne \in nameEnds(ns)}
                                     : ns \in SpPlus(s, d)}
                              : d \in DigPlus(s, w)}
       noIdx(w)     == {<<w, 0, 0, w, 0 - ne>> : ne \in nameEnds(w)}
       ways         == UNION {withIdx(w) \cup noIdx(w) : w \in SpStar(s, 1)}
   IN  IF ways = {} THEN None
       ELSE LET m  == CHOOSE t \in ways : \A u \in ways : TriedFirst(t, u)
                ns == m[4]
                ne == 0 - m[5]
                tl == LET T == CourseTail(s, ne)
                      IN  CHOOSE t \in T : \A u \in T : TriedFirst(t, u)
            IN  Some([name  |-> SubSeq(s, ns, ne - 1),
                      ects  |-> SubSeq(s, tl[1], tl[2] - 1),
                      hours |-> SubSeq(s, tl[3], tl[4] - 1)])

\* mutant of flush_buffer: the name is taken as matched, without the strip
flush_buffer_NoStrip(b) ==
   IF b = <<>> THEN None
   ELSE LET parts == SelectSeq([i \in 1..Len(b) |-> Strip(b[i], WHITESPACE)],
                               LAMBDA x : x # <<>>)
            s     == CollapseSpace(Join(parts))
            m     == CourseLineMatch(s)
        IN  IF m = None THEN None
            ELSE Some([name  |-> m[1].name,
                       ects  |-> DigitsValue(m[1].ects),
                       hours |-> DigitsValue(m[1].hours)])

\* flush_buffer(buf): {name, ects, hours} or None
flush_buffer(b) ==
   IF b = <<>> THEN None
   ELSE LET parts == SelectSeq([i \in 1..Len(b) |-> Strip(b[i], WHITESPACE)],
                               LAMBDA x : x # <<>>)
            s     == CollapseSpace(Join(parts))
            m     == CourseLineMatch(s)
        IN  IF m = None THEN None
            ELSE Some([name  |-> Strip(m[1].name, STRIP_CHARS),
                       ects  |-> DigitsValue(m[1].ects),
                       hours |-> DigitsValue(m[1].hours)])

--------------------------------------------------------------------------
\* Bounds of the model.

\* pages of the document
MaxPages == 2

\* text lines of the document, over all its pages
MaxLines == 2

\* table rows of the document, over all its pages
MaxRows == 1

\* text lines of a document of wrapped course rows, over all its pages
MaxWrapLines == 3

\* items of the index main iterates over
MaxDocs == 2

\* text lines of one document of the index, over all its pages
MaxDocLines == 1

\* characters of a string given to clean
MaxLen == 3

\* text lines of a document of course lines, page-boundary courses and tables, over
\* all its pages
MaxOrderLines == 3

--------------------------------------------------------------------------
\* The inputs: the raw text lines a page's extract_text() can hold and the raw rows
\* its extract_tables() can hold.

\* "01"
C_01 ==
      <<"0","1">>
\* "Операционные системы"
C_OS ==
      <<"O","p","e","r","a","c","i","o","n","n","y","e"," ","s","i","s","t","e","m","y">>
\* "3"
C_3 ==
      <<"3">>
\* "108"
C_108 ==
      <<"1","0","8">>
\* "Курс"
C_KURS ==
      <<"K","u","r","s">>
\* " 3 "
C_PAD3 ==
      <<" ","3"," ">>
\* ""
C_EMPTY ==
      <<>>
\* "три"
C_TRI ==
      <<"t","r","i">>
\* "0"
C_0 ==
      <<"0">>
\* "-"
C_DASH ==
      <<"-">>
\* "-3"
C_NEG3 ==
      <<"-","3">>
\* "7"
C_7 ==
      <<"7">>

\* "Обязательные дисциплины. 1 семестр"
L_REQ_HEAD ==
      <<"O","b","ya","z","a","t","e","l","soft","n","y","e"," ","d","i","s","c","i","p","l","i",
      "n","y","."," ","1"," ","s","e","m","e","s","t","r">>
\* "Пул выборных дисциплин 2 семестр"
L_POOL_HEAD ==
      <<"P","u","l"," ","v","y","b","o","r","n","y","h"," ","d","i","s","c","i","p","l","i","n",
      " ","2"," ","s","e","m","e","s","t","r">>
\* "Методы машинного"
L_FRAG ==
      <<"M","e","t","o","d","y"," ","m","a","sh","i","n","n","o","g","o">>
\* " обучения  4\t144"
L_TAIL_NAME ==
      <<" ","o","b","u","ch","e","n","i","ya"," "," ","4","\t","1","4","4">>
\* "5 180"
L_TAIL_ONLY ==
      <<"5"," ","1","8","0">>
\* "Практика 3 семестр"
L_NOISE_SEM ==
      <<"P","r","a","k","t","i","k","a"," ","3"," ","s","e","m","e","s","t","r">>
\* "Блок 1 5 180"
L_NOISE_TAIL ==
      <<"B","l","o","k"," ","1"," ","5"," ","1","8","0">>
\* "Курс 0 00"
L_ZERO ==
      <<"K","u","r","s"," ","0"," ","0","0">>
\* "Курс 5 8"
L_HOURS1 ==
      <<"K","u","r","s"," ","5"," ","8">>
\* "Курс 5"
L_NAME_ECTS ==
      <<"K","u","r","s"," ","5">>
\* "180"
L_HOURS ==
      <<"1","8","0">>
\* " \t"
L_BLANK ==
      <<" ","\t">>

\* "Курс 7"
L_NAME_NUM ==
      C_KURS \o <<" ">> \o C_7

\* "3 Курс"
L_IDX_NAME ==
      C_3 \o <<" ">> \o C_KURS

\* Lines that end in two integers, in every shape of the two: what stands before
\* them, then a credit of 1 to 3 digits, then hours of 1 to 5 digits.
TailLines ==
   {p \o <<" ">> \o e \o <<" ">> \o h :
       p \in {C_KURS, C_DASH, L_NAME_NUM, L_IDX_NAME},
       e \in {<<"5">>, <<"1","2">>, <<"1","2","3">>},
       h \in {<<"8">>, <<"3","6">>, C_108, <<"1","0","8","0">>, <<"1","0","8","0","0">>}}

\* "Ан"
N_AN ==
      <<"A","n">>
\* "Ана"
N_ANA ==
      <<"A","n","a">>
\* "Блок"
N_BLOK ==
      <<"B","l","o","k">>
\* "Блок 1"
N_BLOK1 ==
      <<"B","l","o","k"," ","1">>
\* "БЛОК 2 Курс"
N_BLOK_UP ==
      <<"B","L","O","K"," ","2"," ","K","u","r","s">>
\* "Учебный план"
N_PLAN ==
      <<"U","ch","e","b","n","y","j"," ","p","l","a","n">>
\* "Лист1"
N_LIST1 ==
      <<"L","i","s","t","1">>
\* "Семестр старт"
N_SEM_START ==
      <<"S","e","m","e","s","t","r"," ","s","t","a","r","t">>

\* What stands before the credit on the lines given to the post-filter: names that
\* are empty after the strip, shorter than 3 characters, of 3 characters, with and
\* without the keywords of the post-filter.
FilterNames ==
   {C_DASH, N_AN, N_ANA, C_KURS, N_BLOK, N_BLOK1, N_BLOK_UP, N_PLAN, N_LIST1, N_SEM_START}

\* Course lines with these names
FilterLines ==
   {n \o <<" ","5"," ","1","8","0">> : n \in FilterNames}

\* "- Курс;"
L_PUNCT ==
      C_DASH \o <<" ">> \o C_KURS \o <<";">>

\* The lines of wrapped course rows: a heading that is noise, fragments (plain, with
\* a leading ordinal, with punctuation, a bare number) and the lines that end a row.
WrapLines ==
   {L_REQ_HEAD, L_FRAG, L_IDX_NAME, L_PUNCT, L_HOURS, L_TAIL_NAME, L_TAIL_ONLY}

\* Lines that are buffered as fragments and change no context.
Fragments ==
   {L_FRAG, L_HOURS, L_NAME_ECTS}

\* the lines of a page's text
RawLines ==
   {L_REQ_HEAD, L_POOL_HEAD, L_FRAG, L_TAIL_NAME, L_TAIL_ONLY, L_NOISE_SEM, L_NOISE_TAIL,
    L_ZERO, L_HOURS1, L_NAME_ECTS, L_HOURS, L_BLANK}

\* the rows of a page's tables
Rows ==
   {<<C_01, C_OS, C_3, C_108>>,
    <<C_KURS, C_0, C_108>>}

\* Rows of every shape: an ordinal, an empty or a missing first cell; a name, a
\* dash, a number or nothing in the second; a credit that is positive, zero,
\* negative, a word or padded; hours that are positive, zero or missing; and rows
\* of fewer cells.
RowsAll ==
   {<<a, b, c, d>> : a \in {C_01, C_EMPTY, NoneCell},
                     b \in {C_OS, C_KURS, C_DASH, C_7, C_EMPTY},
                     c \in {C_3, C_0, C_NEG3, C_TRI, C_PAD3},
                     d \in {C_108, C_0, C_EMPTY}}
      \cup {<<>>, <<C_KURS, C_3, C_108>>, <<C_3, C_108>>}

\* "0 семестр"
L_SEM0 ==
      <<"0"," ","s","e","m","e","s","t","r">>
\* "Пул выборных и обязательных курсов"
L_BOTH ==
      <<"P","u","l"," ","v","y","b","o","r","n","y","h"," ","i"," ","o","b","ya","z","a","t","e",
      "l","soft","n","y","h"," ","k","u","r","s","o","v">>
\* "- 3 Курс 5 180"
L_BULLET ==
      C_DASH \o <<" ">> \o L_IDX_NAME \o <<" ","5"," ","1","8","0">>

\* "Курс 2 семестр 5 180"
L_SEM_TAIL ==
      <<"K","u","r","s"," ","2"," ","s","e","m","e","s","t","r"," ","5"," ","1","8","0">>

\* Lines that set the context (a semester line, a line with both markers, the
\* required marker line), a course line, a course line with a dash before its
\* ordinal, and a course line that names a semester itself.
CtxLines ==
   {L_SEM0, L_BOTH, L_REQ_HEAD, L_TAIL_NAME, L_BULLET, L_SEM_TAIL}

\* A course line, and two lines that make a course at the page boundary.
OrderLines ==
   {L_TAIL_NAME, L_NAME_ECTS, L_HOURS}

\* "обучения"
C_OBUCHENIYA ==
      <<"o","b","u","ch","e","n","i","ya">>
\* "4"
C_4 ==
      <<"4">>
\* "144"
C_144 ==
      <<"1","4","4">>

\* The row of the course that the line " обучения  4\t144" also gives, and a row
\* that gives nothing.
OrderRows ==
   {<<C_01, C_OBUCHENIYA, C_4, C_144>>,
    <<C_KURS, C_0, C_108>>}

\* The lines of the documents of the index: the pool marker line, which sets the
\* block type and the semester and is buffered, and a course line.
MainLines ==
   {L_POOL_HEAD, L_TAIL_NAME}

\* The items of the index: {program, file}, the file being there or not.
DocItems ==
   {[program |-> "ai", exists |-> TRUE],
    [program |-> "ai_product", exists |-> TRUE],
    [program |-> "ai_product", exists |-> FALSE]}

\* the program identifier the caller passes
PROGRAM == "ai"

\* the three labels of "type"
TYPE_UNKNOWN == "Ne opredeleno"

TYPE_REQUIRED == "Obyazatelnaya"

TYPE_ELECTIVE == "Vybornaya"

--------------------------------------------------------------------------
\* parse_pdf_plan

VARIABLES
   pc,                \* where parse_pdf_plan is: "page", "lines", "tables", "rows",
                      \* "done" (returned), "raised" (left by an exception)
   page,              \* the number of the page being processed (0 before the first)
   current_semester,  \* Optional[int]
   current_type,
   buf,               \* List[str]
   results,           \* List[Dict], before the post-filter
   clean_res,         \* the list returned
   nlines,            \* lines processed so far
   nrows,             \* rows processed so far
   last,              \* history: the step just taken, its input, the buffer before it
   bufPages,          \* history: for each fragment of buf, the page it was read on
   origin,            \* history: for each record of results, how it was made
   lastMarker,        \* history: the block type of the last marker line, or None
   program,           \* the program identifier parse_pdf_plan was called with
   main_pc,           \* where main is: "start", "loop", "call", "end" (returned),
                      \* "exit" (SystemExit), "raised"; "direct" when parse_pdf_plan
                      \* or a function is called on its own
   idx,               \* None when the index file is missing, else the items of the
                      \* index main has iterated over so far
   all_rows,          \* List[Dict] of main
   out_json,          \* None until OUT_JSON is written, then what was written
   ended,             \* history: the buffer and the context the last call ended with
   arg,               \* the argument of a function called on its own
   ret                \* None until that function returns, then what it returned

\* what parse_pdf_plan does not touch
outer ==
   <<program, main_pc, idx, all_rows, out_json, ended, arg, ret>>

vars ==
   <<pc, page, current_semester, current_type, buf, results, clean_res, nlines, nrows,
     last, bufPages, origin, lastMarker, program, main_pc, idx, all_rows, out_json,
     ended, arg, ret>>

\* parse_pdf_plan is called on its own, for the program PROGRAM
DirectCall ==
   /\ program = PROGRAM
   /\ main_pc = "direct"
   /\ idx = None
   /\ all_rows = <<>>
   /\ out_json = None
   /\ ended = None
   /\ arg = None
   /\ ret = None

\* mutant of UpdateType: a line without a marker resets the block type
UpdateType_Reset(f, type) ==
   IF f.pool THEN TYPE_ELECTIVE
   ELSE IF f.required THEN TYPE_REQUIRED
   ELSE TYPE_UNKNOWN

\* mutant of UpdateType: the required marker is looked for first
UpdateType_RequiredFirst(f, type) ==
   IF f.required THEN TYPE_REQUIRED
   ELSE IF f.pool THEN TYPE_ELECTIVE
   ELSE type

\* lines 82-83, 88-90: the block type after the line
UpdateType(f, type) ==
   IF f.pool THEN TYPE_ELECTIVE
   ELSE IF f.required THEN TYPE_REQUIRED
   ELSE type

\* lines 85-87, 91-93: the semester a marker line carries
MarkerSemester(f, sem) ==
   IF (f.pool \/ f.required) /\ f.semester # None THEN f.semester ELSE sem

\* mutant of AnySemester: only the marker lines are searched for a semester
AnySemester_Off(f, sem) ==
   sem

\* lines 96-98: the semester of any line
AnySemester(f, sem) ==
   IF f.semester # None THEN f.semester ELSE sem

\* lines 82-98: the semester after the line
UpdateSemester(f, sem) ==
   AnySemester(f, MarkerSemester(f, sem))

\* lines 120-126: the noise filter
IsNoise(l) ==
   LET low == lower(l)
   IN  \E kw \in NOISE_KEYWORDS : Contains(low, kw)

\* mutant of Stamp: the record carries the context of the start of the document
Stamp_InitialContext(sem, type, item) ==
   [program  |-> program,
    semester |-> None,
    type     |-> TYPE_UNKNOWN,
    name     |-> item.name,
    ects     |-> item.ects,
    hours    |-> item.hours]

\* the record appended: the item with the context of the moment
Stamp(sem, type, item) ==
   [program  |-> program,
    semester |-> sem,
    type     |-> type,
    name     |-> item.name,
    ects     |-> item.ects,
    hours    |-> item.hours]

\* mutant of CollapseLine: a failed collapse keeps the fragments and the line
CollapseLine_KeepOnFail(b, l) ==
   [item |-> flush_buffer(Append(b, l)),
    buf  |-> IF flush_buffer(Append(b, l)) # None THEN <<>> ELSE Append(b, l)]

\* lines 103-116: the buffer and the item after a line that ends in two integers
CollapseLine(b, l) ==
   [item |-> flush_buffer(Append(b, l)), buf |-> <<>>]

\* mutant of AdmitLine: no noise filter
AdmitLine_NoFilter(b, f) ==
   Append(b, f.line)

\* lines 117-127: the buffer after a line that does not
AdmitLine(b, f) ==
   IF ~f.noise THEN Append(b, f.line) ELSE b

\* What lines 77-126 compute from one line of the text alone, f: the normalized
\* line and the results of the searches on it.
Facts(raw) ==
   LET l == clean(raw)
   IN  [line     |-> l,
        pool     |-> PoolSearch(l),
        required |-> RequiredSearch(l),
        semester |-> SemesterSearch(l),
        tail     |-> EndsInTwoInts(l),
        noise    |-> IsNoise(l)]

\* Facts of every input line, computed once.
LineFacts ==
   [raw \in RawLines \cup TailLines \cup FilterLines \cup WrapLines \cup MainLines
                \cup CtxLines
      |-> Facts(raw)]

\* mutant of BoundaryFlush: the buffer is cleared whether or not the collapse succeeded
BoundaryFlush_AlwaysClear(b) ==
   [item |-> flush_buffer(b), buf |-> <<>>]

\* lines 129-138: the page-boundary flush
BoundaryFlush(b) ==
   LET item == flush_buffer(b)
   IN  [item |-> item, buf |-> IF item # None THEN <<>> ELSE b]

\* int(s) of a cell: Some(value), or None where int() raises ValueError.  An
\* optional sign, then digits, single underscores allowed between digits.
IntParse(s) ==
   LET t      == Strip(s, WHITESPACE)
       signed == t # <<>> /\ t[1] \in {"+", "-"}
       body   == IF signed THEN Tail(t) ELSE t
       digits == SelectSeq(body, IsDigit)
       ok     == /\ body # <<>>
                 /\ \A i \in 1..Len(body) : IsDigit(body[i]) \/ body[i] = "_"
                 /\ IsDigit(body[1]) /\ IsDigit(body[Len(body)])
                 /\ \A i \in 1..(Len(body) - 1) : ~(body[i] = "_" /\ body[i + 1] = "_")
   IN  IF ~ok THEN None
       ELSE Some(IF signed /\ t[1] = "-" THEN 0 - DigitsValue(digits)
                 ELSE DigitsValue(digits))

\* re.sub(r"^\d+\s+", "", name)
DropIndex(name) ==
   LET ends == UNION {SpPlus(name, d) : d \in DigPlus(name, 1)}
   IN  IF ends = {} THEN name ELSE SubSeq(name, MaxOf(ends), Len(name))

\* lines 155: cells = [clean(c) for c in row if clean(c)]
RowCells(row) ==
   SelectSeq([i \in 1..Len(row) |-> clean(row[i])], LAMBDA c : c # <<>>)

\* mutant of TableRow: the credit and the hours are not required to be positive
TableRow_AnySign(row) ==
   IF row = <<>> THEN None
   ELSE LET cells == RowCells(row)
            n     == Len(cells)
        IN  IF n < 3 THEN None
            ELSE LET ects  == IntParse(cells[n - 1])
                     hours == IntParse(cells[n])
                     name  == Strip(DropIndex(Join(SubSeq(cells, 1, n - 2))), STRIP_CHARS)
                 IN  IF ects = None \/ hours = None THEN None
                     ELSE IF name # <<>>
                          THEN Some([name |-> name, ects |-> ects[1], hours |-> hours[1]])
                          ELSE None

\* lines 152-176: the item a table row gives, or None
TableRow(row) ==
   IF row = <<>> THEN None
   ELSE LET cells == RowCells(row)
            n     == Len(cells)
        IN  IF n < 3 THEN None
            ELSE LET ects  == IntParse(cells[n - 1])
                     hours == IntParse(cells[n])
                     name  == Strip(DropIndex(Join(SubSeq(cells, 1, n - 2))), STRIP_CHARS)
                 IN  IF ects = None \/ hours = None THEN None
                     ELSE IF name # <<>> /\ ects[1] > 0 /\ hours[1] > 0
                          THEN Some([name |-> name, ects |-> ects[1], hours |-> hours[1]])
                          ELSE None

\* mutant of KeepRecord: names of 2 characters pass
KeepRecord_Len2(r) ==
   /\ ~(r.name = <<>> \/ Len(r.name) < 2)
   /\ LET low == lower(r.name)
      IN  ~(\E kw \in POST_KEYWORDS : Contains(low, kw))

\* lines 181-186: whether the post-filter keeps the record
KeepRecord(r) ==
   /\ ~(r.name = <<>> \/ Len(r.name) < 3)
   /\ LET low == lower(r.name)
      IN  ~(\E kw \in POST_KEYWORDS : Contains(low, kw))

\* lines 179-189: the post-filter
RECURSIVE PostFilter(_)
PostFilter(rs) ==
   IF rs = <<>> THEN <<>>
   ELSE (IF KeepRecord(rs[1]) THEN <<rs[1]>> ELSE <<>>) \o PostFilter(Tail(rs))

\* history: the block type a marker line announces
MarkerOf(f, prev) ==
   IF f.pool THEN Some(TYPE_ELECTIVE)
   ELSE IF f.required THEN Some(TYPE_REQUIRED)
   ELSE prev

\* history: how a record was made
Origin(path, frags, pages, marker) ==
   [path |-> path, page |-> page, frags |-> frags, pages |-> pages, marker |-> marker]

Init ==
   /\ DirectCall
   /\ pc = "page"
   /\ page = 0
   /\ current_semester = None
   /\ current_type = TYPE_UNKNOWN
   /\ buf = <<>>
   /\ results = <<>>
   /\ clean_res = <<>>
   /\ nlines = 0
   /\ nrows = 0
   /\ last = [kind |-> "init", input |-> <<>>, buf |-> <<>>, emitted |-> FALSE]
   /\ bufPages = <<>>
   /\ origin = <<>>
   /\ lastMarker = None

\* line 74, 76: the next page; page.extract_text() returns
ExtractText ==
   /\ pc = "page"
   /\ UNCHANGED outer
   /\ page < MaxPages
   /\ page' = page + 1
   /\ pc' = "lines"
   /\ last' = [kind |-> "text", input |-> <<>>, buf |-> buf, emitted |-> FALSE]
   /\ UNCHANGED <<current_semester, current_type, buf, results, clean_res, nlines,
                  nrows, bufPages, origin, lastMarker>>

\* line 76: page.extract_text() raises; nothing catches it
ExtractTextRaises ==
   /\ pc = "page"
   /\ UNCHANGED outer
   /\ page < MaxPages
   /\ page' = page + 1
   /\ pc' = "raised"
   /\ last' = [kind |-> "text_raised", input |-> <<>>, buf |-> buf, emitted |-> FALSE]
   /\ UNCHANGED <<current_semester, current_type, buf, results, clean_res, nlines,
                  nrows, bufPages, origin, lastMarker>>

\* lines 77-127: one line of the page (blank lines are dropped at line 77)
ProcessLine(raw) ==
   /\ pc = "lines"
   /\ UNCHANGED outer
   /\ LineFacts[raw].line # <<>>
   /\ LET f    == LineFacts[raw]
          l    == f.line
          type == UpdateType(f, current_type)
          sem  == UpdateSemester(f, current_semester)
          mk   == MarkerOf(f, lastMarker)
      IN  /\ current_type' = type
          /\ current_semester' = sem
          /\ lastMarker' = mk
          /\ IF f.tail
             THEN LET c == CollapseLine(buf, l)
                  IN  /\ buf' = c.buf
                      /\ bufPages' = <<>>
                      /\ results' = IF c.item # None
                                    THEN Append(results, Stamp(sem, type, c.item[1]))
                                    ELSE results
                      /\ origin' = IF c.item # None
                                   THEN Append(origin, Origin("line", Append(buf, l),
                                                              Append(bufPages, page), mk))
                                   ELSE origin
                      /\ last' = [kind |-> "line", input |-> l, buf |-> buf,
                                  emitted |-> c.item # None]
             ELSE /\ buf' = AdmitLine(buf, f)
                  /\ bufPages' = IF Len(buf') > Len(buf) THEN Append(bufPages, page)
                                 ELSE bufPages
                  /\ last' = [kind |-> "line", input |-> l, buf |-> buf,
                              emitted |-> FALSE]
                  /\ UNCHANGED <<results, origin>>
   /\ nlines' = nlines + 1
   /\ UNCHANGED <<pc, page, clean_res, nrows>>

\* lines 129-138: the end of the page's lines
PageFlush ==
   /\ pc = "lines"
   /\ UNCHANGED outer
   /\ LET f == BoundaryFlush(buf)
      IN  /\ buf' = f.buf
          /\ bufPages' = IF f.buf = <<>> THEN <<>> ELSE bufPages
          /\ results' = IF f.item # None
                        THEN Append(results,
                                    Stamp(current_semester, current_type, f.item[1]))
                        ELSE results
          /\ origin' = IF f.item # None
                       THEN Append(origin, Origin("flush", buf, bufPages, lastMarker))
                       ELSE origin
          /\ last' = [kind |-> "flush", input |-> <<>>, buf |-> buf,
                      emitted |-> f.item # None]
   /\ pc' = "tables"
   /\ UNCHANGED <<page, current_semester, current_type, clean_res, nlines, nrows,
                  lastMarker>>

\* lines 148-149: page.extract_tables() raises: tables = [], the page is over
ExtractTablesRaises ==
   /\ pc = "tables"
   /\ UNCHANGED outer
   /\ pc' = "page"
   /\ last' = [kind |-> "tables_raised", input |-> <<>>, buf |-> buf, emitted |-> FALSE]
   /\ UNCHANGED <<page, current_semester, current_type, buf, results, clean_res,
                  nlines, nrows, bufPages, origin, lastMarker>>

\* lines 151-176: one row of the page's tables
ProcessRow(row) ==
   /\ pc \in {"tables", "rows"}
   /\ UNCHANGED outer
   /\ pc' = "rows"
   /\ LET item == TableRow(row)
      IN  /\ results' = IF item # None
                        THEN Append(results,
                                    Stamp(current_semester, current_type, item[1]))
                        ELSE results
          /\ origin' = IF item # None
                       THEN Append(origin, Origin("table", row, <<>>, lastMarker))
                       ELSE origin
          /\ last' = [kind |-> "row", input |-> row, buf |-> buf,
                      emitted |-> item # None]
   /\ nrows' = nrows + 1
   /\ UNCHANGED <<page, current_semester, current_type, buf, clean_res, nlines,
                  bufPages, lastMarker>>

\* mutant of EndPage: after the tables the lines of the same page may go on
EndPage_BackToLines ==
   /\ pc \in {"tables", "rows"}
   /\ UNCHANGED outer
   /\ pc' \in {"page", "lines"}
   /\ last' = [kind |-> "end_page", input |-> <<>>, buf |-> buf, emitted |-> FALSE]
   /\ UNCHANGED <<page, current_semester, current_type, buf, results, clean_res,
                  nlines, nrows, bufPages, origin, lastMarker>>

\* line 151: the page's tables are exhausted
EndPage ==
   /\ pc \in {"tables", "rows"}
   /\ UNCHANGED outer
   /\ pc' = "page"
   /\ last' = [kind |-> "end_page", input |-> <<>>, buf |-> buf, emitted |-> FALSE]
   /\ UNCHANGED <<page, current_semester, current_type, buf, results, clean_res,
                  nlines, nrows, bufPages, origin, lastMarker>>

\* lines 178-189: no page is left; the post-filter, return
Return ==
   /\ pc = "page"
   /\ UNCHANGED outer
   /\ pc' = "done"
   /\ clean_res' = PostFilter(results)
   /\ last' = [kind |-> "return", input |-> <<>>, buf |-> buf, emitted |-> FALSE]
   /\ UNCHANGED <<page, current_semester, current_type, buf, results, nlines, nrows,
                  bufPages, origin, lastMarker>>

Next ==
   \/ ExtractText
   \/ ExtractTextRaises
   \/ \E raw \in RawLines : nlines < MaxLines /\ ProcessLine(raw)
   \/ PageFlush
   \/ ExtractTablesRaises
   \/ \E row \in Rows : nrows < MaxRows /\ ProcessRow(row)
   \/ EndPage
   \/ Return

Spec ==
   Init /\ [][Next]_vars

TypeOK ==
   /\ pc \in {"idle", "page", "lines", "tables", "rows", "done", "raised"}
   /\ Len(bufPages) = Len(buf)
   /\ Len(origin) = Len(results)

--------------------------------------------------------------------------
\* The line path as a function of the buffer and the line: parse_pdf_plan is in the
\* lines of its first page, some fragments are buffered, and one line that ends in
\* two integers is processed.

InitCollapse ==
   /\ DirectCall
   /\ pc = "lines"
   /\ page = 1
   /\ current_semester = None
   /\ current_type = TYPE_UNKNOWN
   /\ buf \in UNION {[1..n -> Fragments] : n \in 0..(MaxLines - 1)}
   /\ bufPages = [i \in 1..Len(buf) |-> 1]
   /\ results = <<>>
   /\ clean_res = <<>>
   /\ nlines = Len(buf)
   /\ nrows = 0
   /\ last = IF buf = <<>>
             THEN [kind |-> "text", input |-> <<>>, buf |-> <<>>, emitted |-> FALSE]
             ELSE [kind |-> "line", input |-> buf[Len(buf)],
                   buf |-> SubSeq(buf, 1, Len(buf) - 1), emitted |-> FALSE]
   /\ origin = <<>>
   /\ lastMarker = None

NextCollapse ==
   \E raw \in TailLines : nlines = Len(buf) /\ ProcessLine(raw)

SpecCollapse ==
   InitCollapse /\ [][NextCollapse]_vars

--------------------------------------------------------------------------
\* Words of the claims.

\* the positions where the whitespace-separated tokens of a line start
TokenStarts(s) ==
   {i \in 1..Len(s) : ~IsSpace(s[i]) /\ (i = 1 \/ IsSpace(s[i - 1]))}

\* the token that starts at i
TokenAt(s, i) ==
   LET sp == {j \in i..Len(s) : IsSpace(s[j])}
   IN  SubSeq(s, i, IF sp = {} THEN Len(s) ELSE MinOf(sp) - 1)

\* a token that is an integer: digits only
IsInteger(tok) ==
   tok # <<>> /\ \A i \in 1..Len(tok) : IsDigit(tok[i])

\* where the last token of a line starts, and the one before it
HoursStart(s) ==
   MaxOf(TokenStarts(s))

CreditStart(s) ==
   MaxOf(TokenStarts(s) \ {HoursStart(s)})

CreditToken(s) ==
   TokenAt(s, CreditStart(s))

HoursToken(s) ==
   TokenAt(s, HoursStart(s))

\* the line ends in two whitespace-separated integers (credit, hours) preceded by at
\* least one token that does not start with a digit
EndsInCreditHours(s) ==
   /\ Cardinality(TokenStarts(s)) >= 3
   /\ IsInteger(CreditToken(s))
   /\ IsInteger(HoursToken(s))
   /\ \E i \in TokenStarts(s) \ {CreditStart(s), HoursStart(s)} : ~IsDigit(s[i])

\* the record appended by the step just taken
LastRecord ==
   results[Len(results)]

--------------------------------------------------------------------------
\* C1 as stated: every line that ends in two integers (credit, hours) preceded by at
\* least one token that does not start with a digit makes the line path emit a
\* record whose ects and hours are those two integers, whatever is buffered.
C1_AnyTwoIntegers ==
   (last.kind = "line" /\ EndsInCreditHours(last.input))
      => /\ last.emitted
         /\ LastRecord.ects = DigitsValue(CreditToken(last.input))
         /\ LastRecord.hours = DigitsValue(HoursToken(last.input))

\* C1 amended: the same for the lines whose credit has 1 or 2 digits and whose hours
\* have 2 to 4 digits; any other line that ends in two integers emits nothing.
C1_CreditHoursEmitted ==
   (last.kind = "line" /\ EndsInCreditHours(last.input))
      => IF /\ Len(CreditToken(last.input)) \in 1..2
            /\ Len(HoursToken(last.input)) \in 2..4
         THEN /\ last.emitted
              /\ LastRecord.ects = DigitsValue(CreditToken(last.input))
              /\ LastRecord.hours = DigitsValue(HoursToken(last.input))
         ELSE ~last.emitted /\ results = <<>>

\* C1 witness: fragments are buffered, a line with a two-digit credit and four-digit
\* hours is processed and the record carries both.
C1_Witness ==
   /\ last.kind = "line"
   /\ last.buf # <<>>
   /\ EndsInCreditHours(last.input)
   /\ Len(CreditToken(last.input)) = 2
   /\ Len(HoursToken(last.input)) = 4
   /\ last.emitted
   /\ LastRecord.ects = 12
   /\ LastRecord.hours = 1080

--------------------------------------------------------------------------
\* C2: every record parse_pdf_plan returns, whether the line path, the page-boundary
\* flush or the table path made it, has ects > 0 and hours > 0.
C2_ReturnedPositive ==
   pc = "done" => \A i \in 1..Len(clean_res) :
                     clean_res[i].ects > 0 /\ clean_res[i].hours > 0

--------------------------------------------------------------------------
\* the pages of the fragments the i-th record was collapsed from
PagesOf(i) ==
   {origin[i].pages[k] : k \in 1..Len(origin[i].pages)}

--------------------------------------------------------------------------
\* C4: a record emitted after a block-type marker line and before the next one
\* carries that marker's block type, whatever lines and page boundaries lie in
\* between; a record emitted before any marker line carries the initial type.
C4_TypeOfLastMarker ==
   \A i \in 1..Len(results) :
      results[i].type = (IF origin[i].marker = None THEN TYPE_UNKNOWN
                         ELSE origin[i].marker[1])

\* C4 witness: the required marker and a course line are read on page 1, and the
\* table path of page 2 emits a second record; both are "Обязательная".
C4_Witness ==
   /\ Len(results) = 2
   /\ origin[1].path = "line" /\ origin[1].page = 1
   /\ origin[2].path = "table" /\ origin[2].page = 2
   /\ origin[2].marker = Some(TYPE_REQUIRED)
   /\ results[1].type = TYPE_REQUIRED
   /\ results[2].type = TYPE_REQUIRED

--------------------------------------------------------------------------
\* the tokens of a line that are an integer followed by a token that begins with
\* "семестр", in any case: the places where the line says "N семестр"
SemesterTokens(s) ==
   {i \in TokenStarts(s) :
       /\ IsInteger(TokenAt(s, i))
       /\ LET j == i + Len(TokenAt(s, i)) + 1
          IN  /\ j + Len(KW_SEMESTR) - 1 <= Len(s)
              /\ lower(SubSeq(s, j, j + Len(KW_SEMESTR) - 1)) = KW_SEMESTR}

\* the N of the first "N семестр" of the line
NamedSemester(s) ==
   DigitsValue(TokenAt(s, MinOf(SemesterTokens(s))))

\* the line carries the elective-pool marker: "Пул", whitespace, "выборн"
NamesPool(s) ==
   \E i \in TokenStarts(s) :
      /\ lower(TokenAt(s, i)) = lower(KW_PUL)
      /\ LET j == i + Len(KW_PUL) + 1
         IN  /\ j + Len(KW_VYBORN) - 1 <= Len(s)
             /\ lower(SubSeq(s, j, j + Len(KW_VYBORN) - 1)) = KW_VYBORN

\* C5: a line that says "N семестр" sets current_semester to N, be it a marker
\* line, a plain line or a noise line that is not buffered, and with the
\* elective-pool marker on it also sets the block type; every record is stamped with
\* the semester and the block type of the moment it is emitted.
C5_SemesterOnEveryLine ==
   /\ (last.kind = "line" /\ SemesterTokens(last.input) # {})
         => /\ current_semester = Some(NamedSemester(last.input))
            /\ NamesPool(last.input) => current_type = TYPE_ELECTIVE
   /\ last.emitted
         => /\ LastRecord.semester = current_semester
            /\ LastRecord.type = current_type

\* C5 witness: the pool marker line with "2 семестр" and the noise line
\* "Практика 3 семестр" have been read; only the former is buffered, and the table
\* path emits a record of semester 3 and type "Выборная".
C5_Witness ==
   /\ last.kind = "row"
   /\ last.emitted
   /\ buf = <<clean(L_POOL_HEAD)>>
   /\ NamesPool(buf[1])
   /\ NamedSemester(buf[1]) = 2
   /\ IsNoise(clean(L_NOISE_SEM))
   /\ LastRecord.semester = Some(3)
   /\ LastRecord.type = TYPE_ELECTIVE

--------------------------------------------------------------------------
\* the normalized input lines that contain a noise keyword and do not end in two
\* integers
NoiseOnly ==
   {LineFacts[raw].line :
       raw \in {x \in RawLines \cup TailLines : LineFacts[x].noise /\ ~LineFacts[x].tail}}

\* C6: a line that contains a noise keyword and does not end in two integers leaves
\* the buffer as it was and emits nothing when it is processed, is never in the
\* buffer, and is never among the fragments a record's name is made of.
C6_NoiseNeverBuffered ==
   /\ (last.kind = "line" /\ last.input \in NoiseOnly)
         => buf = last.buf /\ ~last.emitted
   /\ \A k \in 1..Len(buf) : buf[k] \notin NoiseOnly
   /\ \A i \in 1..Len(origin) :
         \A k \in 1..Len(origin[i].frags) : origin[i].frags[k] \notin NoiseOnly

\* C6 witness: the noise line "Обязательные дисциплины. 1 семестр" has been read (the
\* type and the semester are its own), and the next line makes a record from its own
\* text alone.
C6_Witness ==
   /\ clean(L_REQ_HEAD) \in NoiseOnly
   /\ last.kind = "line"
   /\ last.emitted
   /\ last.buf = <<>>
   /\ nlines = 2
   /\ LastRecord.type = TYPE_REQUIRED
   /\ LastRecord.semester = Some(1)
   /\ origin[Len(origin)].frags = <<last.input>>
   /\ LastRecord.name = Strip(SubSeq(last.input, 1, CreditStart(last.input) - 1),
                              WHITESPACE)

--------------------------------------------------------------------------
\* The post-filter over names of every kind: parse_pdf_plan on documents whose lines
\* are course lines with the names of FilterNames.

NextFilter ==
   \/ ExtractText
   \/ \E raw \in FilterLines : nlines < MaxLines /\ ProcessLine(raw)
   \/ PageFlush
   \/ \E row \in Rows : nrows < MaxRows /\ ProcessRow(row)
   \/ EndPage
   \/ Return

SpecFilter ==
   Init /\ [][NextFilter]_vars

\* the name has at least 3 characters and, lowercased, none of the substrings
\* "учебный план", "блок ", "семестр старт", "лист1"
GoodName(r) ==
   /\ Len(r.name) >= 3
   /\ \A kw \in POST_KEYWORDS : ~Contains(lower(r.name), kw)

\* the records of a sequence
RecordsOf(rs) ==
   {rs[i] : i \in 1..Len(rs)}

\* C7: what parse_pdf_plan returns is exactly the subsequence of the merged records
\* that have a good name, in their order and with every field as it was; a record
\* whose name is empty or contains "блок 1" is not returned.
C7_ExactSubsequence ==
   pc = "done"
      => /\ clean_res = SelectSeq(results, GoodName)
         /\ \A r \in RecordsOf(results) :
               (r.name = <<>> \/ Contains(lower(r.name), <<"b","l","o","k"," ","1">>))
                  => r \notin RecordsOf(clean_res)

\* C7 witness: three records are merged, the first with the name "Блок 1"; the
\* other two are returned, in their order.
C7_Witness ==
   /\ pc = "done"
   /\ Len(results) = 3
   /\ results[1].name = N_BLOK1
   /\ results[2].name = N_ANA
   /\ origin[3].path = "table"
   /\ clean_res = <<results[2], results[3]>>

--------------------------------------------------------------------------
\* Wrapped course rows: parse_pdf_plan on documents whose lines are those of
\* WrapLines.

NextWrap ==
   \/ ExtractText
   \/ \E raw \in WrapLines : nlines < MaxWrapLines /\ ProcessLine(raw)
   \/ PageFlush
   \/ EndPage
   \/ Return

SpecWrap ==
   Init /\ [][NextWrap]_vars

\* the line ends in "ects hours": its last two tokens are a credit of 1 or 2 digits
\* and hours of 2 to 4 digits
EndsRow(s) ==
   /\ Cardinality(TokenStarts(s)) >= 2
   /\ IsInteger(CreditToken(s)) /\ Len(CreditToken(s)) \in 1..2
   /\ IsInteger(HoursToken(s)) /\ Len(HoursToken(s)) \in 2..4

\* the name part of such a line: what stands before the credit
NamePart(s) ==
   Strip(SubSeq(s, 1, CreditStart(s) - 1), WHITESPACE)

\* the fragments and the name part of the line, joined in order with single spaces
JoinedName(frags, s) ==
   Join(SelectSeq(Append(frags, NamePart(s)), LAMBDA x : x # <<>>))

\* a name without its leading ordinal index: the first token, when it is an integer
\* and more text follows it
WithoutOrdinal(s) ==
   IF Cardinality(TokenStarts(s)) >= 2 /\ IsInteger(TokenAt(s, 1))
   THEN SubSeq(s, MinOf(TokenStarts(s) \ {1}), Len(s))
   ELSE s

\* a wrapped row has just been completed: fragments are buffered and the line
\* processed ends in "ects hours"
RowCompleted ==
   last.kind = "line" /\ last.buf # <<>> /\ EndsRow(last.input)

\* C8 as stated: when fragments f1..fk are followed on the same page by a line that
\* ends in "ects hours", one record is emitted and its name is f1..fk and the name
\* part of the line joined in order with single spaces.
C8_NameIsJoinedFragments ==
   RowCompleted
      => /\ last.emitted
         /\ buf = <<>>
         /\ PagesOf(Len(origin)) = {page}
               => LastRecord.name = JoinedName(last.buf, last.input)

\* C8 amended: the record's name is the buffered fragments and the name part of the
\* line joined in order with single spaces, without a leading ordinal index and with
\* the punctuation noise at both ends stripped; its credit and hours are the line's;
\* the buffer is empty afterwards.  A heading filtered as noise is not among the
\* fragments.
C8_NameIsStrippedJoin ==
   RowCompleted
      => /\ last.emitted
         /\ buf = <<>>
         /\ origin[Len(origin)].frags = Append(last.buf, last.input)
         /\ LastRecord.name =
               Strip(WithoutOrdinal(JoinedName(last.buf, last.input)), STRIP_CHARS)
         /\ LastRecord.ects = DigitsValue(CreditToken(last.input))
         /\ LastRecord.hours = DigitsValue(HoursToken(last.input))
         /\ \A k \in 1..Len(last.buf) : last.buf[k] \notin NoiseOnly

\* C8 witness: the heading "Обязательные дисциплины. 1 семестр", then "Методы
\* машинного", then "обучения 4 144" on one page: one record, with the context of
\* the heading and the name "Методы машинного обучения".
C8_Witness ==
   /\ RowCompleted
   /\ nlines = 3
   /\ page = 1
   /\ Len(results) = 1
   /\ last.buf = <<L_FRAG>>
   /\ LastRecord.name = L_FRAG \o <<" ">> \o NamePart(last.input)
   /\ Len(NamePart(last.input)) = 8
   /\ LastRecord.ects = 4
   /\ LastRecord.hours = 144
   /\ LastRecord.semester = Some(1)
   /\ LastRecord.type = TYPE_REQUIRED

--------------------------------------------------------------------------
\* The table path as a function of the row: parse_pdf_plan is at the tables of its
\* first page, whose text was empty, and the rows are those of RowsAll.

InitRows ==
   /\ DirectCall
   /\ pc = "tables"
   /\ page = 1
   /\ current_semester = None
   /\ current_type = TYPE_UNKNOWN
   /\ buf = <<>>
   /\ results = <<>>
   /\ clean_res = <<>>
   /\ nlines = 0
   /\ nrows = 0
   /\ last = [kind |-> "flush", input |-> <<>>, buf |-> <<>>, emitted |-> FALSE]
   /\ bufPages = <<>>
   /\ origin = <<>>
   /\ lastMarker = None

NextRows ==
   \E row \in RowsAll : nrows < MaxRows /\ ProcessRow(row)

SpecRows ==
   InitRows /\ [][NextRows]_vars

\* the cell parses as a positive integer
PositiveCell(c) ==
   IntParse(c) # None /\ IntParse(c)[1] > 0

\* the name of a row: the cells before the last two joined with spaces, without a
\* leading ordinal index and with the punctuation noise at both ends stripped
RowName(cells) ==
   Strip(WithoutOrdinal(Join(SubSeq(cells, 1, Len(cells) - 2))), STRIP_CHARS)

\* the row has at least 3 non-empty normalized cells, the last two parse as positive
\* integers and the others give a non-empty name
GoodRow(row) ==
   LET cells == RowCells(row)
       n     == Len(cells)
   IN  /\ n >= 3
       /\ PositiveCell(cells[n - 1])
       /\ PositiveCell(cells[n])
       /\ RowName(cells) # <<>>

\* the record of a good row, but for its context
RowRecord(row) ==
   LET cells == RowCells(row)
       n     == Len(cells)
   IN  [name  |-> RowName(cells),
        ects  |-> IntParse(cells[n - 1])[1],
        hours |-> IntParse(cells[n])[1]]

--------------------------------------------------------------------------
\* C10: when the text extraction or the table extraction of a page raises, no error
\* leaves parse_pdf_plan: the page counts as empty, the records collected so far are
\* kept and the next page is parsed.
C10_NoErrorLeaves ==
   /\ pc # "raised"
   /\ last.kind \in {"text_raised", "tables_raised"} => pc \in {"lines", "page"}

--------------------------------------------------------------------------
\* main

\* mutant of EntryState: the context and the buffer of the previous call survive
EntryState_Kept(sem, type, b) ==
   [semester |-> sem, type |-> type, buf |-> b]

\* lines 69-71: the locals parse_pdf_plan starts with, whatever the previous call
\* left
EntryState(sem, type, b) ==
   [semester |-> None, type |-> TYPE_UNKNOWN, buf |-> <<>>]

\* main is about to run; the index file is there (empty so far) or missing
InitMain ==
   /\ pc = "idle"
   /\ page = 0
   /\ current_semester = None
   /\ current_type = TYPE_UNKNOWN
   /\ buf = <<>>
   /\ results = <<>>
   /\ clean_res = <<>>
   /\ nlines = 0
   /\ nrows = 0
   /\ last = [kind |-> "init", input |-> <<>>, buf |-> <<>>, emitted |-> FALSE]
   /\ bufPages = <<>>
   /\ origin = <<>>
   /\ lastMarker = None
   /\ program = ""
   /\ main_pc = "start"
   /\ idx \in {None, Some(<<>>)}
   /\ all_rows = <<>>
   /\ out_json = None
   /\ ended = None
   /\ arg = None
   /\ ret = None

\* lines 197-201: no index file: SystemExit; else the index is read
MainStart ==
   /\ main_pc = "start"
   /\ main_pc' = IF idx = None THEN "exit" ELSE "loop"
   /\ all_rows' = <<>>
   /\ UNCHANGED <<pc, page, current_semester, current_type, buf, results, clean_res,
                  nlines, nrows, last, bufPages, origin, lastMarker, program, idx,
                  out_json, ended, arg, ret>>

\* lines 203-208: the next item of the index; its file is missing: a warning, continue
MainSkip(item) ==
   /\ main_pc = "loop"
   /\ ~item.exists
   /\ idx' = Some(Append(idx[1], item))
   /\ UNCHANGED <<pc, page, current_semester, current_type, buf, results, clean_res,
                  nlines, nrows, last, bufPages, origin, lastMarker, program, main_pc,
                  all_rows, out_json, ended, arg, ret>>

\* lines 203-209, 62-71: the next item of the index; parse_pdf_plan is called on it
MainCall(item) ==
   /\ main_pc = "loop"
   /\ item.exists
   /\ idx' = Some(Append(idx[1], item))
   /\ main_pc' = "call"
   /\ program' = item.program
   /\ LET e == EntryState(current_semester, current_type, buf)
      IN  /\ current_semester' = e.semester
          /\ current_type' = e.type
          /\ buf' = e.buf
          /\ bufPages' = [i \in 1..Len(e.buf) |-> 0]
   /\ pc' = "page"
   /\ page' = 0
   /\ results' = <<>>
   /\ clean_res' = <<>>
   /\ nlines' = 0
   /\ nrows' = 0
   /\ last' = [kind |-> "init", input |-> <<>>, buf |-> <<>>, emitted |-> FALSE]
   /\ origin' = <<>>
   /\ lastMarker' = None
   /\ UNCHANGED <<all_rows, out_json, ended, arg, ret>>

\* lines 209-211: parse_pdf_plan returned; its rows are added
MainCollect ==
   /\ main_pc = "call"
   /\ pc = "done"
   /\ all_rows' = all_rows \o clean_res
   /\ main_pc' = "loop"
   /\ pc' = "idle"
   /\ ended' = Some([buf |-> buf, semester |-> current_semester, type |-> current_type])
   /\ UNCHANGED <<page, current_semester, current_type, buf, results, clean_res, nlines,
                  nrows, last, bufPages, origin, lastMarker, program, idx, out_json,
                  arg, ret>>

\* line 209: parse_pdf_plan raised; nothing in main catches it
MainRaised ==
   /\ main_pc = "call"
   /\ pc = "raised"
   /\ main_pc' = "raised"
   /\ UNCHANGED <<pc, page, current_semester, current_type, buf, results, clean_res,
                  nlines, nrows, last, bufPages, origin, lastMarker, program, idx,
                  all_rows, out_json, ended, arg, ret>>

\* lines 213-214: the index is exhausted; OUT_JSON is written
MainWrite ==
   /\ main_pc = "loop"
   /\ out_json' = Some(all_rows)
   /\ main_pc' = "end"
   /\ UNCHANGED <<pc, page, current_semester, current_type, buf, results, clean_res,
                  nlines, nrows, last, bufPages, origin, lastMarker, program, idx,
                  all_rows, ended, arg, ret>>

NextMain ==
   \/ MainStart
   \/ \E item \in DocItems : main_pc = "loop" /\ Len(idx[1]) < MaxDocs /\ MainSkip(item)
   \/ \E item \in DocItems : main_pc = "loop" /\ Len(idx[1]) < MaxDocs /\ MainCall(item)
   \/ ExtractText
   \/ ExtractTextRaises
   \/ \E raw \in MainLines : nlines < MaxDocLines /\ ProcessLine(raw)
   \/ PageFlush
   \/ EndPage
   \/ Return
   \/ MainCollect
   \/ MainRaised
   \/ MainWrite

SpecMain ==
   InitMain /\ [][NextMain]_vars

--------------------------------------------------------------------------
\* C11: in a batch run, a document whose parse fails or whose file is missing does
\* not end the run: the rows of the other documents are collected and OUT_JSON is
\* written; the run ends without output only when the index file is missing, before
\* any document is parsed.
C11_PartialResultsWritten ==
   /\ main_pc # "raised"
   /\ main_pc = "exit" => idx = None /\ out_json = None
   /\ main_pc = "end" => idx # None /\ out_json = Some(all_rows)
   /\ idx = None => pc = "idle"

--------------------------------------------------------------------------
\* clean on its own: it is called on one string of up to MaxLen characters, of
\* spaces, tabs, a letter and a digit, or on None.

CleanChars ==
   {" ", "\t", "K", "5"}

CleanArgs ==
   UNION {[1..n -> CleanChars] : n \in 0..MaxLen} \cup {NoneCell}

InitClean ==
   /\ pc = "idle"
   /\ page = 0
   /\ current_semester = None
   /\ current_type = TYPE_UNKNOWN
   /\ buf = <<>>
   /\ results = <<>>
   /\ clean_res = <<>>
   /\ nlines = 0
   /\ nrows = 0
   /\ last = [kind |-> "init", input |-> <<>>, buf |-> <<>>, emitted |-> FALSE]
   /\ bufPages = <<>>
   /\ origin = <<>>
   /\ lastMarker = None
   /\ program = ""
   /\ main_pc = "direct"
   /\ idx = None
   /\ all_rows = <<>>
   /\ out_json = None
   /\ ended = None
   /\ arg \in {Some(s) : s \in CleanArgs}
   /\ ret = None

\* lines 55-56: clean(arg) returns
CallClean ==
   /\ pc = "idle"
   /\ arg # None
   /\ ret = None
   /\ ret' = Some(clean(arg[1]))
   /\ UNCHANGED <<pc, page, current_semester, current_type, buf, results, clean_res,
                  nlines, nrows, last, bufPages, origin, lastMarker, program, main_pc,
                  idx, all_rows, out_json, ended, arg>>

SpecClean ==
   InitClean /\ [][CallClean]_vars

\* C12: clean is idempotent, and what it returns has no whitespace at either end, no
\* two whitespace characters in a row and no whitespace character but the space.
C12_CleanIdempotent ==
   ret # None
      => LET r == ret[1]
         IN  /\ clean(r) = r
             /\ r # <<>> => ~IsSpace(r[1]) /\ ~IsSpace(r[Len(r)])
             /\ \A i \in 1..(Len(r) - 1) : ~(IsSpace(r[i]) /\ IsSpace(r[i + 1]))
             /\ \A i \in 1..Len(r) : IsSpace(r[i]) => r[i] = " "

\* C12 witness: clean was called on tab, letter, space, and returned the letter
\* alone.
C12_Witness ==
   /\ arg = Some(<<"\t", "K", " ">>)
   /\ ret = Some(<<"K">>)

--------------------------------------------------------------------------
\* parse_pdf_plan on documents whose lines are those of CtxLines and whose rows are
\* those of Rows.

NextCtx ==
   \/ ExtractText
   \/ \E raw \in CtxLines : nlines < MaxLines /\ ProcessLine(raw)
   \/ PageFlush
   \/ \E row \in Rows : nrows < MaxRows /\ ProcessRow(row)
   \/ EndPage
   \/ Return

SpecCtx ==
   Init /\ [][NextCtx]_vars

--------------------------------------------------------------------------
\* parse_pdf_plan on documents whose lines are those of OrderLines and whose rows
\* are those of Rows.

NextOrder ==
   \/ ExtractText
   \/ \E raw \in OrderLines : nlines < MaxOrderLines /\ ProcessLine(raw)
   \/ PageFlush
   \/ \E row \in OrderRows : nrows < MaxRows /\ ProcessRow(row)
   \/ EndPage
   \/ Return

SpecOrder ==
   Init /\ [][NextOrder]_vars

--------------------------------------------------------------------------
\* the step is the processing of a line that says "N семестр"
SemesterLineStep ==
   nlines' = nlines + 1 /\ SemesterTokens(last'.input) # {}

\* C13: the semester of every returned record is absent or a positive integer; the
\* semester is absent until the first line that says "N семестр" is processed and
\* present from then on, and every record is emitted with the semester of the moment.
C13_SemesterAbsentOrPositive ==
   /\ [](pc = "done" => \A i \in 1..Len(clean_res) :
                           \/ clean_res[i].semester = None
                           \/ clean_res[i].semester[1] > 0)
   /\ [](last.emitted => LastRecord.semester = current_semester)
   /\ [][/\ SemesterLineStep => current_semester' # None
         /\ ~SemesterLineStep => (current_semester' = None <=> current_semester = None)
        ]_vars

--------------------------------------------------------------------------
\* C14: the name of every returned record is non-empty, has at least 3 characters,
\* does not begin with an integer token (an ordinal index), and neither begins nor
\* ends with a space, period, semicolon, dash or em-dash.
C14_NameFreeOfIndex ==
   pc = "done"
      => \A i \in 1..Len(clean_res) :
            LET name == clean_res[i].name
            IN  /\ name # <<>>
                /\ Len(name) >= 3
                /\ name[1] \notin STRIP_CHARS
                /\ name[Len(name)] \notin STRIP_CHARS
                /\ ~IsInteger(TokenAt(name, 1))

--------------------------------------------------------------------------
\* the normalized input lines that end in two integers
TailSet ==
   {LineFacts[raw].line : raw \in {x \in DOMAIN LineFacts : LineFacts[x].tail}}

\* C15: after a line that ends in two integers is processed the buffer is empty,
\* whether a record was emitted or not; no line that ends in two integers is ever
\* in the buffer, and no record is made of fragments from before such a line: among
\* the fragments of a record only the last can end in two integers.
C15_EmptyAfterEveryAttempt ==
   /\ (last.kind = "line" /\ last.input \in TailSet) => buf = <<>>
   /\ \A k \in 1..Len(buf) : buf[k] \notin TailSet
   /\ \A i \in 1..Len(origin) :
         \A k \in 1..(Len(origin[i].frags) - 1) :
            origin[i].path # "table" => origin[i].frags[k] \notin TailSet

\* C15 witness: a fragment is buffered, the line "Курс 5 8" ends in two integers
\* and does not collapse; nothing is emitted and the buffer is empty.
C15_Witness ==
   /\ last.kind = "line"
   /\ last.input = L_HOURS1
   /\ last.input \in TailSet
   /\ last.buf = <<L_FRAG>>
   /\ ~last.emitted
   /\ results = <<>>
   /\ buf = <<>>

--------------------------------------------------------------------------
\* the line carries the required marker: "обязательн" anywhere, in any case
NamesRequired(s) ==
   \E i \in 1..Len(s) :
      /\ i + Len(KW_OBYAZATELN) - 1 <= Len(s)
      /\ lower(SubSeq(s, i, i + Len(KW_OBYAZATELN) - 1)) = lower(KW_OBYAZATELN)

\* a step that processes a line and emits a record
LineEmitStep ==
   /\ nlines' = nlines + 1
   /\ Len(results') = Len(results) + 1

\* C16: a record carries the semester and the block type current when it was
\* appended. A line-path record carries the context after the update by its own
\* line: the semester the line names, the block type of its marker, else the context
\* before the line. A page-boundary or table step leaves the context as the last
\* line left it. No step changes a record that is already in the list.
C16_StampedAtEmission ==
   /\ [](last.emitted => /\ LastRecord.semester = current_semester
                         /\ LastRecord.type = current_type)
   /\ [][/\ LineEmitStep
            => LET r == results'[Len(results')]
                   l == last'.input
               IN  /\ r.semester = IF SemesterTokens(l) # {}
                                   THEN Some(NamedSemester(l))
                                   ELSE current_semester
                   /\ r.type = IF NamesPool(l) THEN TYPE_ELECTIVE
                               ELSE IF NamesRequired(l) THEN TYPE_REQUIRED
                               ELSE current_type
         /\ nlines' = nlines
            => /\ current_semester' = current_semester
               /\ current_type' = current_type
         /\ Len(results') >= Len(results)
         /\ SubSeq(results', 1, Len(results)) = results]_vars

\* C16 witness: "Курс 2 семестр 5 180" emitted a record with semester 2 and type
\* Unknown; the later line "Пул выборных и обязательных курсов" made the block type
\* Elective and the record is as it was.
C16_Witness ==
   /\ Len(results) = 1
   /\ origin[1].frags = <<LineFacts[L_SEM_TAIL].line>>
   /\ results[1].semester = Some(2)
   /\ results[1].type = TYPE_UNKNOWN
   /\ last.kind = "line"
   /\ last.input = LineFacts[L_BOTH].line
   /\ current_type = TYPE_ELECTIVE
   /\ current_semester = Some(2)

--------------------------------------------------------------------------
\* the place of a path within a page: the lines, then the page boundary, then the
\* tables
PathRank(path) ==
   CASE path = "line"  -> 1
     [] path = "flush" -> 2
     [] path = "table" -> 3

\* the path of the step that has just emitted a record
PathOfStep ==
   CASE last.kind = "line"  -> "line"
     [] last.kind = "flush" -> "flush"
     [] last.kind = "row"   -> "table"
     [] OTHER               -> "none"

\* C17: the records of a document are in page order; within a page the line-path
\* records come first, then at most one page-boundary record, then the table-path
\* records. Every step that emits appends one record at the end of the list, made
\* on the current page by the path of that step, and leaves the others in place;
\* a good row is emitted even when an equal record is already in the list.
C17_PageByPagePathOrder ==
   /\ [](/\ Len(origin) = Len(results)
         /\ \A i, j \in 1..Len(origin) :
               i < j
                  => \/ origin[i].page < origin[j].page
                     \/ /\ origin[i].page = origin[j].page
                        /\ PathRank(origin[i].path) <= PathRank(origin[j].path)
                        /\ ~(origin[i].path = "flush" /\ origin[j].path = "flush")
         /\ last.emitted
               => /\ results # <<>>
                  /\ origin[Len(origin)].page = page
                  /\ origin[Len(origin)].path = PathOfStep
         /\ (last.kind = "row" /\ GoodRow(last.input))
               => /\ last.emitted
                  /\ LastRecord.name = RowRecord(last.input).name)
   /\ [][/\ SubSeq(results', 1, Len(results)) = results
         /\ Len(results') \in {Len(results), Len(results) + 1}
         /\ (Len(results') = Len(results) + 1) <=> last'.emitted]_vars

\* C17 witness: on page 1 the line " обучения  4\t144" gave a record, "Курс 5" and
\* "180" gave the page-boundary record, and the table row of "обучения" gave a
\* third record, equal to the first.
C17_Witness ==
   /\ Len(results) = 3
   /\ origin[1].path = "line" /\ origin[1].page = 1
   /\ origin[2].path = "flush" /\ origin[2].page = 1
   /\ origin[3].path = "table" /\ origin[3].page = 1
   /\ results[1] = results[3]
   /\ results[1].name = C_OBUCHENIYA
   /\ results[2].name = C_KURS

--------------------------------------------------------------------------
\* C18: a call of parse_pdf_plan starts with no semester, block type Unknown and an
\* empty buffer, whatever the call before it left: until the first line of the
\* document is processed the context is the initial one and nothing is buffered;
\* every fragment of every record was buffered on a page of this document, and a
\* record of a document without a marker line so far has type Unknown. Within a
\* call only a line changes the semester and the block type, so they pass from the
\* last line of a page to the first line of the next.
C18_FreshContextPerDocument ==
   /\ []((main_pc = "call" /\ nlines = 0)
            => /\ current_semester = None
               /\ current_type = TYPE_UNKNOWN
               /\ buf = <<>>)
   /\ [](\A i \in 1..Len(origin) :
            /\ results[i].program = program
            /\ \A k \in 1..Len(origin[i].pages) : origin[i].pages[k] >= 1
            /\ origin[i].marker = None => results[i].type = TYPE_UNKNOWN)
   /\ [][(main_pc = "call" /\ main_pc' = "call" /\ nlines' = nlines)
            => /\ current_semester' = current_semester
               /\ current_type' = current_type]_vars

\* C18 witness: the document before ended with "Пул выборных дисциплин 2 семестр" in
\* its buffer, semester 2 and type Elective; this document's line " обучения  4\t144"
\* gave the record "обучения" with no semester and type Unknown.
C18_Witness ==
   /\ main_pc = "call"
   /\ ended = Some([buf      |-> <<LineFacts[L_POOL_HEAD].line>>,
                    semester |-> Some(2),
                    type     |-> TYPE_ELECTIVE])
   /\ Len(results) = 1
   /\ results[1].name = C_OBUCHENIYA
   /\ results[1].semester = None
   /\ results[1].type = TYPE_UNKNOWN
   /\ origin[1].frags = <<LineFacts[L_TAIL_NAME].line>>

--------------------------------------------------------------------------
\* C19: the block type after a line is Elective if the line carries the
\* elective-pool marker, with or without the required marker; Required if it carries
\* only the required marker; and the block type before the line if it carries neither.
C19_PoolMarkerFirst ==
   [][nlines' = nlines + 1
         => current_type' = IF NamesPool(last'.input) THEN TYPE_ELECTIVE
                            ELSE IF NamesRequired(last'.input) THEN TYPE_REQUIRED
                            ELSE current_type]_vars

\* C19 witness: after "Обязательные дисциплины. 1 семестр" the block type was
\* Required; the line "Пул выборных и обязательных курсов" carries both markers and
\* the block type is Elective.
C19_Witness ==
   /\ nlines = 2
   /\ current_semester = Some(1)
   /\ last.kind = "line"
   /\ last.input = LineFacts[L_BOTH].line
   /\ NamesPool(last.input)
   /\ NamesRequired(last.input)
   /\ current_type = TYPE_ELECTIVE

--------------------------------------------------------------------------
\* the normalized input lines that carry a block-type marker or say "N семестр"
\* and do not end in two integers
ContextOnly ==
   {l \in {LineFacts[raw].line : raw \in DOMAIN LineFacts} :
       /\ l \notin TailSet
       /\ NamesPool(l) \/ NamesRequired(l) \/ SemesterTokens(l) # {}}

\* C20: a line that carries a block-type marker or a semester pattern and does not
\* end in two integers only changes the context: it is not among the fragments of
\* any record of the line path or of the page boundary.
C20_ContextLinesOnlySetContext ==
   \A i \in 1..Len(origin) :
      origin[i].path # "table"
         => \A k \in 1..Len(origin[i].frags) : origin[i].frags[k] \notin ContextOnly

====
